---- MODULE Spec2Model ----
(***************************************************************************)
(* HttpParser (network/http/src/lib.rs): renders an http::Request or       *)
(* http::Response as wire text.                                            *)
(*                                                                         *)
(* Text is a sequence of Unicode code points, a header value a sequence of *)
(* bytes.  The accessors and Display impls the parser calls (http crate,   *)
(* std) are modelled by what they do: HeaderMap keeps one entry per name   *)
(* with the further values of that name chained to it, from_utf8_lossy     *)
(* decodes UTF-8 and substitutes U+FFFD for each ill-formed sequence.      *)
(***************************************************************************)
EXTENDS Integers, Sequences, FiniteSets, TLC

\* ------------------------------------------------------------------ bounds
MaxHeaders == 3
MaxValueLen == 3
NumMessages == 2
MaxCalls == 2
NumThreads == 2

\* ------------------------------------------------------------ text literals
SP == <<32>>                                             \* " "
COLON == <<58>>                                          \* ":"
CRLF == <<13, 10>>                                       \* "\r\n"
REPLACEMENT_CHARACTER == <<65533>>                       \* U+FFFD

RECURSIVE Concat(_)
\* format!: the pieces written one after the other
Concat(parts) ==
    IF parts = <<>> THEN <<>> ELSE Head(parts) \o Concat(Tail(parts))

RECURSIVE join(_, _)
\* [String]::join(sep)
join(lines, sep) ==
    IF lines = <<>> THEN <<>>
    ELSE IF Len(lines) = 1 THEN lines[1]
    ELSE lines[1] \o sep \o join(Tail(lines), sep)

\* ------------------------------------------------- Option<String> results
None == [some |-> FALSE, text |-> <<>>]
Some(t) == [some |-> TRUE, text |-> t]

\* ----------------------------------------------------- http object model
Versions == {"HTTP_09", "HTTP_10", "HTTP_11", "HTTP_2", "HTTP_3"}
Methods == {"GET", "POST"}
StatusCodes == {200, 404}

UriLocalhost ==
    [scheme |-> <<104, 116, 116, 112>>,                     \* "http"
     authority |-> <<108, 111, 99, 97, 108, 104, 111, 115, 116>>, \* "localhost"
     path |-> <<47>>]                                       \* "/"
UriRoot == [scheme |-> <<>>, authority |-> <<>>, path |-> <<47>>]   \* "/"
Uris == {UriLocalhost, UriRoot}

HeaderNames == {<<97>>, <<98>>}                          \* "a", "b"
HeaderValues == {<<49>>, <<255>>}                        \* b"1", b"\xFF"
\* bytes a HeaderValue may hold, enough to spell 1-, 2- and 3-byte
\* characters, truncated and stray ones: 'A', C3 A9 (U+00E9),
\* E2 82 A9 (U+20A9), FF
ValueBytes == {65, 195, 169, 226, 130, 255}

BodyHello == <<60, 104, 49, 62, 104, 101, 108, 108, 111, 60, 47, 104, 49, 62>>
Bodies == {<<>>, BodyHello}                              \* "", "<h1>hello</h1>"

\* Display for Method
method_display(m) ==
    CASE m = "GET" -> <<71, 69, 84>>
      [] m = "POST" -> <<80, 79, 83, 84>>

\* Display for Uri: scheme "://" authority path
uri_display(u) ==
    (IF u.scheme # <<>> THEN u.scheme \o <<58, 47, 47>> ELSE <<>>)
    \o u.authority \o u.path

RECURSIVE u16_display(_)
\* Display for u16: decimal digits
u16_display(n) ==
    IF n < 10 THEN <<48 + n>>
    ELSE u16_display(n \div 10) \o <<48 + (n % 10)>>

\* StatusCode::canonical_reason
canonical_reason(s) ==
    CASE s = 200 -> Some(<<79, 75>>)                                  \* "OK"
      [] s = 404 -> Some(<<78, 111, 116, 32, 70, 111, 117, 110, 100>>) \* "Not Found"
      [] OTHER -> None

\* Display for StatusCode: "{code} {canonical reason}"
status_display(s) ==
    u16_display(s) \o SP \o
    (IF canonical_reason(s).some THEN canonical_reason(s).text
     ELSE <<60, 117, 110, 107, 110, 111, 119, 110, 32, 115, 116, 97, 116,
            117, 115, 32, 99, 111, 100, 101, 62>>)       \* "<unknown status code>"

\* HeaderMap: entries in insertion order of their names; the further values
\* of a name hang off its entry (Bucket.links into extra_values).
EmptyHeaderMap == [entries |-> <<>>]

find(map, key) ==
    {idx \in 1..Len(map.entries) : map.entries[idx].key = key}

\* HeaderMap::append, as request::Builder::header calls it
append(map, key, value) ==
    IF find(map, key) # {}
    THEN LET idx == CHOOSE x \in find(map, key) : TRUE
         IN [entries |-> [map.entries EXCEPT
                ![idx].extra = Append(map.entries[idx].extra, value)]]
    ELSE [entries |-> Append(map.entries,
                [key |-> key, value |-> value, extra |-> <<>>])]

RECURSIVE values_of(_, _)
values_of(key, vals) ==
    IF vals = <<>> THEN <<>>
    ELSE <<[key |-> key, value |-> Head(vals)]>> \o values_of(key, Tail(vals))

RECURSIVE iter_entries(_)
iter_entries(entries) ==
    IF entries = <<>> THEN <<>>
    ELSE values_of(Head(entries).key, <<Head(entries).value>> \o Head(entries).extra)
         \o iter_entries(Tail(entries))

\* HeaderMap::iter: each entry's own value, then its further values, entry
\* after entry
iter(map) == iter_entries(map.entries)

\* --------------------------------------------------- String::from_utf8_lossy
IsCont(bytes, i) == i <= Len(bytes) /\ bytes[i] >= 128 /\ bytes[i] <= 191

\* core::str::utf8_char_width
utf8_char_width(b) ==
    IF b < 128 THEN 1
    ELSE IF b >= 194 /\ b <= 223 THEN 2
    ELSE IF b >= 224 /\ b <= 239 THEN 3
    ELSE IF b >= 240 /\ b <= 244 THEN 4
    ELSE 0

\* the second byte of a 3- or 4-byte sequence, as Utf8Chunks::next matches it
SecondOk(bytes) ==
    /\ Len(bytes) >= 2
    /\ LET b == bytes[1]  c == bytes[2] IN
       \/ b = 224 /\ c >= 160 /\ c <= 191
       \/ b >= 225 /\ b <= 236 /\ c >= 128 /\ c <= 191
       \/ b = 237 /\ c >= 128 /\ c <= 159
       \/ b >= 238 /\ b <= 239 /\ c >= 128 /\ c <= 191
       \/ b = 240 /\ c >= 144 /\ c <= 191
       \/ b >= 241 /\ b <= 243 /\ c >= 128 /\ c <= 191
       \/ b = 244 /\ c >= 128 /\ c <= 143

\* Utf8Chunks::next on a non-empty slice: [ok, n]: a whole character of n
\* bytes, or an ill-formed sequence of n bytes (those read before the break)
scan(bytes) ==
    LET w == utf8_char_width(bytes[1]) IN
    CASE w = 1 -> [ok |-> TRUE, n |-> 1]
      [] w = 2 -> IF IsCont(bytes, 2) THEN [ok |-> TRUE, n |-> 2]
                  ELSE [ok |-> FALSE, n |-> 1]
      [] w = 3 -> IF ~SecondOk(bytes) THEN [ok |-> FALSE, n |-> 1]
                  ELSE IF ~IsCont(bytes, 3) THEN [ok |-> FALSE, n |-> 2]
                  ELSE [ok |-> TRUE, n |-> 3]
      [] w = 4 -> IF ~SecondOk(bytes) THEN [ok |-> FALSE, n |-> 1]
                  ELSE IF ~IsCont(bytes, 3) THEN [ok |-> FALSE, n |-> 2]
                  ELSE IF ~IsCont(bytes, 4) THEN [ok |-> FALSE, n |-> 3]
                  ELSE [ok |-> TRUE, n |-> 4]
      [] OTHER -> [ok |-> FALSE, n |-> 1]

\* the code point a well-formed sequence encodes
code_point(bytes) ==
    CASE Len(bytes) = 1 -> bytes[1]
      [] Len(bytes) = 2 -> (bytes[1] - 192) * 64 + (bytes[2] - 128)
      [] Len(bytes) = 3 ->
            (bytes[1] - 224) * 4096 + (bytes[2] - 128) * 64 + (bytes[3] - 128)
      [] OTHER ->
            (bytes[1] - 240) * 262144 + (bytes[2] - 128) * 4096
            + (bytes[3] - 128) * 64 + (bytes[4] - 128)

RECURSIVE from_utf8_lossy_skip(_)
\* a decoder that drops ill-formed sequences instead of marking them
from_utf8_lossy_skip(bytes) ==
    IF bytes = <<>> THEN <<>>
    ELSE LET c == scan(bytes)
             rest == SubSeq(bytes, c.n + 1, Len(bytes))
         IN (IF c.ok THEN <<code_point(SubSeq(bytes, 1, c.n))>> ELSE <<>>)
            \o from_utf8_lossy_skip(rest)

RECURSIVE from_utf8_lossy(_)
\* String::from_utf8_lossy: U+FFFD for each ill-formed sequence
from_utf8_lossy(bytes) ==
    IF bytes = <<>> THEN <<>>
    ELSE LET c == scan(bytes)
             rest == SubSeq(bytes, c.n + 1, Len(bytes))
         IN (IF c.ok THEN <<code_point(SubSeq(bytes, 1, c.n))>>
             ELSE REPLACEMENT_CHARACTER)
            \o from_utf8_lossy(rest)

\* ------------------------------------------------------------------- state
VARIABLES
    message,    \* slot -> the Request or Response the caller built
    given,      \* slot -> the (name, value) pairs handed to Builder::header, in call order
    pc,         \* slot -> "build", "built", "parser", "version", "header", "done"
    parser,     \* slot -> the HttpParser value: its variant and the message it borrows
    version_,   \* slot -> parse_request/parse_response's local `version`
    header_,    \* slot -> parse_request/parse_response's local `header`
    result,     \* slot -> what the latest parse() returned
    calls,      \* slot -> number of parse() calls that returned
    first       \* slot -> what the first parse() call returned

vars == <<message, given, pc, parser, version_, header_, result, calls, first>>

Slots == DOMAIN pc

NoParser == [tag |-> "none", ref |-> 0]

\* Request::builder() / Response::builder() with method, uri, status and
\* version set; no header yet, body not yet given
NewRequest(m, u, v) ==
    [kind |-> "Request", method |-> m, uri |-> u, version |-> v,
     headers |-> EmptyHeaderMap, body |-> <<>>]
NewResponse(s, v) ==
    [kind |-> "Response", status |-> s, version |-> v,
     headers |-> EmptyHeaderMap, body |-> <<>>]

NewMessages ==
    {NewRequest(m, u, v) : m \in Methods, u \in Uris, v \in Versions}
    \cup {NewResponse(s, v) : s \in StatusCodes, v \in Versions}

RECURSIVE with_headers(_, _)
\* Builder::header called for each pair of `pairs` in turn
with_headers(msg, pairs) ==
    IF pairs = <<>> THEN msg
    ELSE with_headers(
            [msg EXCEPT !.headers = append(msg.headers, Head(pairs)[1], Head(pairs)[2])],
            Tail(pairs))

\* ------------------------------------------------------------ the parser
\* parse_version without the HTTP_3 arm: HTTP_3 falls to `_ => None`
parse_version_no_h3(self) ==
    LET version == message[self.ref].version IN
    CASE version = "HTTP_09" -> Some(<<72, 84, 84, 80, 47, 48, 46, 57>>)
      [] version = "HTTP_10" -> Some(<<72, 84, 84, 80, 47, 49, 46, 48>>)
      [] version = "HTTP_11" -> Some(<<72, 84, 84, 80, 47, 49, 46, 49>>)
      [] version = "HTTP_2" -> Some(<<72, 84, 84, 80, 47, 50>>)
      [] OTHER -> None

\* parse_version with the HTTP_10 arm spelling "HTTP/1.1"
parse_version_typo(self) ==
    LET version == message[self.ref].version IN
    CASE version = "HTTP_09" -> Some(<<72, 84, 84, 80, 47, 48, 46, 57>>)
      [] version = "HTTP_10" -> Some(<<72, 84, 84, 80, 47, 49, 46, 49>>)
      [] version = "HTTP_11" -> Some(<<72, 84, 84, 80, 47, 49, 46, 49>>)
      [] version = "HTTP_2" -> Some(<<72, 84, 84, 80, 47, 50>>)
      [] version = "HTTP_3" -> Some(<<72, 84, 84, 80, 47, 51>>)
      [] OTHER -> None

\* HttpParser::parse_version
parse_version(self) ==
    LET version == message[self.ref].version IN
    CASE version = "HTTP_09" -> Some(<<72, 84, 84, 80, 47, 48, 46, 57>>)  \* "HTTP/0.9"
      [] version = "HTTP_10" -> Some(<<72, 84, 84, 80, 47, 49, 46, 48>>)  \* "HTTP/1.0"
      [] version = "HTTP_11" -> Some(<<72, 84, 84, 80, 47, 49, 46, 49>>)  \* "HTTP/1.1"
      [] version = "HTTP_2" -> Some(<<72, 84, 84, 80, 47, 50>>)           \* "HTTP/2"
      [] version = "HTTP_3" -> Some(<<72, 84, 84, 80, 47, 51>>)           \* "HTTP/3"
      [] OTHER -> None

\* the closure of parse_header: format!("{key}:{value}")
header_line(h) == h.key \o COLON \o from_utf8_lossy(h.value)

\* parse_header writing "{key}: {value}"
parse_header_spaced(self) ==
    LET hs == iter(message[self.ref].headers) IN
    join([k \in 1..Len(hs) |-> hs[k].key \o COLON \o SP \o from_utf8_lossy(hs[k].value)],
         CRLF)

\* HttpParser::parse_header
parse_header(self) ==
    LET hs == iter(message[self.ref].headers) IN
    join([k \in 1..Len(hs) |-> header_line(hs[k])], CRLF)

\* the request format string without the CRLF after {header}
format_request_no_crlf(method, uri, version, header, body) ==
    Concat(<<method, SP, uri, SP, version, CRLF, header, body>>)

\* format!("{method} {uri} {version}\r\n{header}\r\n{body}")
format_request(method, uri, version, header, body) ==
    Concat(<<method, SP, uri, SP, version, CRLF, header, CRLF, body>>)

\* the response format string with {status_code} and {version} swapped
format_response_status_first(version, status_code, header, body) ==
    Concat(<<status_code, SP, version, CRLF, header, CRLF, body>>)

\* format!("{version} {status_code}\r\n{header}\r\n{body}")
format_response(version, status_code, header, body) ==
    Concat(<<version, SP, status_code, CRLF, header, CRLF, body>>)

\* HttpParser::parse_request
parse_request(self) ==
    IF self.tag = "Request"
    THEN LET request == message[self.ref]
             version == parse_version(self)
         IN IF ~version.some THEN None
            ELSE Some(format_request(method_display(request.method),
                                     uri_display(request.uri), version.text,
                                     parse_header(self), request.body))
    ELSE None

\* HttpParser::parse_response
parse_response(self) ==
    IF self.tag = "Response"
    THEN LET response == message[self.ref]
             version == parse_version(self)
         IN IF ~version.some THEN None
            ELSE Some(format_response(version.text, status_display(response.status),
                                      parse_header(self), response.body))
    ELSE None

\* parse with the two arms of its match crossed
parse_crossed(self) ==
    CASE self.tag = "Request" -> parse_response(self)
      [] self.tag = "Response" -> parse_request(self)

\* parse answering a repeated call from what was last returned for another
\* message
parse_memo(self) ==
    IF calls[self.ref] > 0 /\ \E j \in Slots : j # self.ref /\ calls[j] > 0
    THEN result[CHOOSE j \in Slots : j # self.ref /\ calls[j] > 0]
    ELSE CASE self.tag = "Request" -> parse_request(self)
           [] self.tag = "Response" -> parse_response(self)

\* HttpParser::parse
parse(self) ==
    CASE self.tag = "Request" -> parse_request(self)
      [] self.tag = "Response" -> parse_response(self)

\* ---------------------------------------------------------------- actions
\* Builder::header(name, value)
BuilderHeader(i, name, value) ==
    /\ pc[i] = "build"
    /\ message' = [message EXCEPT ![i].headers = append(@, name, value)]
    /\ given' = [given EXCEPT ![i] = Append(@, <<name, value>>)]
    /\ UNCHANGED <<pc, parser, version_, header_, result, calls, first>>

\* Builder::body(body): the message is complete
BuilderBody(i, body) ==
    /\ pc[i] = "build"
    /\ message' = [message EXCEPT ![i].body = body]
    /\ pc' = [pc EXCEPT ![i] = "built"]
    /\ UNCHANGED <<given, parser, version_, header_, result, calls, first>>

\* HttpParser::from_request(&request)
FromRequest(i) ==
    /\ pc[i] = "built"
    /\ message[i].kind = "Request"
    /\ parser' = [parser EXCEPT ![i] = [tag |-> "Request", ref |-> i]]
    /\ pc' = [pc EXCEPT ![i] = "parser"]
    /\ UNCHANGED <<message, given, version_, header_, result, calls, first>>

\* HttpParser::from_response(&response)
FromResponse(i) ==
    /\ pc[i] = "built"
    /\ message[i].kind = "Response"
    /\ parser' = [parser EXCEPT ![i] = [tag |-> "Response", ref |-> i]]
    /\ pc' = [pc EXCEPT ![i] = "parser"]
    /\ UNCHANGED <<message, given, version_, header_, result, calls, first>>

\* one whole call of parser.parse()
Parse(i) ==
    /\ pc[i] \in {"parser", "done"}
    /\ calls[i] < MaxCalls
    /\ result' = [result EXCEPT ![i] = parse(parser[i])]
    /\ first' = [first EXCEPT ![i] = IF calls[i] = 0 THEN parse(parser[i]) ELSE @]
    /\ calls' = [calls EXCEPT ![i] = @ + 1]
    /\ pc' = [pc EXCEPT ![i] = "done"]
    /\ UNCHANGED <<message, given, parser, version_, header_>>

\* ------------------------------------------------- one message, one call
InitBuild(S) ==
    /\ message \in [S -> NewMessages]
    /\ given = [i \in S |-> <<>>]
    /\ pc = [i \in S |-> "build"]
    /\ parser = [i \in S |-> NoParser]
    /\ version_ = [i \in S |-> None]
    /\ header_ = [i \in S |-> <<>>]
    /\ result = [i \in S |-> None]
    /\ calls = [i \in S |-> 0]
    /\ first = [i \in S |-> None]

Init == InitBuild({1})

Next ==
    \/ \E i \in Slots, name \in HeaderNames, value \in HeaderValues :
          Len(given[i]) < MaxHeaders /\ BuilderHeader(i, name, value)
    \/ \E i \in Slots, body \in Bodies : BuilderBody(i, body)
    \/ \E i \in Slots : FromRequest(i)
    \/ \E i \in Slots : FromResponse(i)
    \/ \E i \in Slots : calls[i] = 0 /\ Parse(i)

Spec == Init /\ [][Next]_vars

\* ------------------------------------- one message, header values of any bytes
RECURSIVE ByteStrings(_)
\* the byte strings over ValueBytes of length n or less
ByteStrings(n) ==
    IF n = 0 THEN {<<>>}
    ELSE ByteStrings(n - 1)
         \cup {Append(v, b) : v \in {w \in ByteStrings(n - 1) : Len(w) = n - 1},
                              b \in ValueBytes}

\* the values Builder::header is given: every byte string up to MaxValueLen
LossyValues == ByteStrings(MaxValueLen)

Named(i, name) == \E k \in 1..Len(given[i]) : given[i][k][1] = name

InitLossy ==
    /\ InitBuild({1})
    /\ message[1].version = "HTTP_11"
    /\ message[1].kind = "Request" => message[1].method = "GET" /\ message[1].uri = UriRoot
    /\ message[1].kind = "Response" => message[1].status = 200

NextLossy ==
    \/ \E i \in Slots :
          /\ pc[i] = "build" /\ ~Named(i, <<97>>)
          /\ \E value \in LossyValues : BuilderHeader(i, <<97>>, value)
    \/ \E i \in Slots :
          /\ pc[i] = "build" /\ ~Named(i, <<98>>)
          /\ \E value \in HeaderValues : BuilderHeader(i, <<98>>, value)
    \/ \E i \in Slots : BuilderBody(i, BodyHello)
    \/ \E i \in Slots : FromRequest(i)
    \/ \E i \in Slots : FromResponse(i)
    \/ \E i \in Slots : calls[i] = 0 /\ Parse(i)

SpecLossy == InitLossy /\ [][NextLossy]_vars

\* ------------------------------------------- several messages, repeated calls
\* messages as a caller builds them: the two of tests::it_works, and two with
\* headers
Samples ==
    <<[msg |-> NewRequest("GET", UriLocalhost, "HTTP_11"), pairs |-> <<>>,
       body |-> <<>>],
      [msg |-> NewResponse(200, "HTTP_11"), pairs |-> <<>>, body |-> BodyHello],
      [msg |-> NewRequest("POST", UriRoot, "HTTP_2"),
       pairs |-> << <<(<<97>>), (<<49>>)>>, <<(<<98>>), (<<255>>)>>,
                    <<(<<97>>), (<<255>>)>> >>,
       body |-> BodyHello],
      [msg |-> NewResponse(404, "HTTP_10"), pairs |-> << <<(<<98>>), (<<49>>)>> >>,
       body |-> <<>>]>>

Built(k) ==
    [with_headers(Samples[k].msg, Samples[k].pairs) EXCEPT !.body = Samples[k].body]

InitBuilt(S) ==
    \E pick \in [S -> 1..Len(Samples)] :
        /\ message = [i \in S |-> Built(pick[i])]
        /\ given = [i \in S |-> Samples[pick[i]].pairs]
        /\ pc = [i \in S |-> "built"]
        /\ parser = [i \in S |-> NoParser]
        /\ version_ = [i \in S |-> None]
        /\ header_ = [i \in S |-> <<>>]
        /\ result = [i \in S |-> None]
        /\ calls = [i \in S |-> 0]
        /\ first = [i \in S |-> None]

InitCalls == InitBuilt(1..NumMessages)

NextCalls ==
    \/ \E i \in Slots : FromRequest(i)
    \/ \E i \in Slots : FromResponse(i)
    \/ \E i \in Slots : Parse(i)

SpecCalls == InitCalls /\ [][NextCalls]_vars

\* ------------------------------------- threads, the steps of parse interleaved
\* parse: the match on self, then `let version = self.parse_version()?`
StepVersion(i) ==
    /\ pc[i] = "parser"
    /\ LET version == parse_version(parser[i]) IN
       IF version.some
       THEN /\ version_' = [version_ EXCEPT ![i] = version]
            /\ pc' = [pc EXCEPT ![i] = "version"]
            /\ UNCHANGED <<result, calls, first>>
       ELSE /\ result' = [result EXCEPT ![i] = None]
            /\ first' = [first EXCEPT ![i] = IF calls[i] = 0 THEN None ELSE @]
            /\ calls' = [calls EXCEPT ![i] = @ + 1]
            /\ pc' = [pc EXCEPT ![i] = "done"]
            /\ UNCHANGED version_
    /\ UNCHANGED <<message, given, parser, header_>>

\* the header rendered into a buffer all threads share
StepHeaderShared(i) ==
    /\ pc[i] = "version"
    /\ header_' = [j \in Slots |-> parse_header(parser[i])]
    /\ pc' = [pc EXCEPT ![i] = "header"]
    /\ UNCHANGED <<message, given, parser, version_, result, calls, first>>

\* `let header = self.parse_header()`
StepHeader(i) ==
    /\ pc[i] = "version"
    /\ header_' = [header_ EXCEPT ![i] = parse_header(parser[i])]
    /\ pc' = [pc EXCEPT ![i] = "header"]
    /\ UNCHANGED <<message, given, parser, version_, result, calls, first>>

\* `return Some(format!(...))` from the locals
StepFormat(i) ==
    /\ pc[i] = "header"
    /\ LET m == message[parser[i].ref]
           text == IF parser[i].tag = "Request"
                   THEN format_request(method_display(m.method), uri_display(m.uri),
                                       version_[i].text, header_[i], m.body)
                   ELSE format_response(version_[i].text, status_display(m.status),
                                        header_[i], m.body)
       IN /\ result' = [result EXCEPT ![i] = Some(text)]
          /\ first' = [first EXCEPT ![i] = IF calls[i] = 0 THEN Some(text) ELSE @]
    /\ calls' = [calls EXCEPT ![i] = @ + 1]
    /\ pc' = [pc EXCEPT ![i] = "done"]
    /\ UNCHANGED <<message, given, parser, version_, header_>>

InitThreads == InitBuilt(1..NumThreads)

NextThreads ==
    \/ \E i \in Slots : FromRequest(i)
    \/ \E i \in Slots : FromResponse(i)
    \/ \E i \in Slots : StepVersion(i)
    \/ \E i \in Slots : StepHeader(i)
    \/ \E i \in Slots : StepFormat(i)

SpecThreads == InitThreads /\ [][NextThreads]_vars

\* =================================================================== claims
\* What the text is expected to be, written out independently of the parser.
StartsWith(t, p) == Len(p) <= Len(t) /\ SubSeq(t, 1, Len(p)) = p
EndsWith(t, q) == Len(q) <= Len(t) /\ SubSeq(t, Len(t) - Len(q) + 1, Len(t)) = q

\* positions where a CRLF starts
CrlfAt(t) == {k \in 1..(Len(t) - 1) : t[k] = 13 /\ t[k + 1] = 10}
Min(S) == CHOOSE x \in S : \A y \in S : x <= y
\* the text before the first CRLF
StartLine(t) == IF CrlfAt(t) = {} THEN t ELSE SubSeq(t, 1, Min(CrlfAt(t)) - 1)

RECURSIVE SplitAt(_, _)
\* the pieces of t between occurrences of the separator sep (non-empty)
SplitAt(t, sep) ==
    LET at == {k \in 1..(Len(t) - Len(sep) + 1) : SubSeq(t, k, k + Len(sep) - 1) = sep}
    IN IF at = {} THEN <<t>>
       ELSE <<SubSeq(t, 1, Min(at) - 1)>>
            \o SplitAt(SubSeq(t, Min(at) + Len(sep), Len(t)), sep)

\* the lines of a header block: none for the empty block
LinesOf(block) == IF block = <<>> THEN <<>> ELSE SplitAt(block, CRLF)

\* the text between the start line's CRLF and the CRLF before the body
BlockOf(t, body) ==
    SubSeq(t, Len(StartLine(t)) + 3, Len(t) - Len(body) - 2)

ExpectedVersion ==
    [v \in Versions |->
        CASE v = "HTTP_09" -> <<72, 84, 84, 80, 47, 48, 46, 57>>
          [] v = "HTTP_10" -> <<72, 84, 84, 80, 47, 49, 46, 48>>
          [] v = "HTTP_11" -> <<72, 84, 84, 80, 47, 49, 46, 49>>
          [] v = "HTTP_2" -> <<72, 84, 84, 80, 47, 50>>
          [] v = "HTTP_3" -> <<72, 84, 84, 80, 47, 51>>]

ExpectedMethod ==
    [m \in Methods |-> IF m = "GET" THEN <<71, 69, 84>> ELSE <<80, 79, 83, 84>>]

\* "http://localhost/" and "/"
ExpectedTarget(u) ==
    IF u = UriLocalhost
    THEN <<104, 116, 116, 112, 58, 47, 47, 108, 111, 99, 97, 108, 104, 111, 115, 116, 47>>
    ELSE <<47>>

\* "200 OK" and "404 Not Found"
ExpectedStatus(s) ==
    IF s = 200 THEN <<50, 48, 48, 32, 79, 75>>
    ELSE <<52, 48, 52, 32, 78, 111, 116, 32, 70, 111, 117, 110, 100>>

\* b"1" reads "1"; b"\xFF" is no text and reads as the marker U+FFFD
ExpectedValue(v) == IF v = <<49>> THEN <<49>> ELSE <<65533>>

ExpectedLine(name, value) == name \o <<58>> \o ExpectedValue(value)

\* the header lines of the message in slot i, as its header map hands them out
MapLines(i) ==
    LET hs == iter(message[i].headers)
    IN [k \in 1..Len(hs) |-> ExpectedLine(hs[k].key, hs[k].value)]

RECURSIVE Block(_)
\* lines with a CRLF between each two
Block(lines) ==
    IF lines = <<>> THEN <<>>
    ELSE LET front == SubSeq(lines, 1, Len(lines) - 1)
         IN Block(front) \o (IF front = <<>> THEN <<>> ELSE <<13, 10>>)
            \o lines[Len(lines)]

RECURSIVE Terminated(_)
\* lines each followed by its CRLF
Terminated(lines) ==
    IF lines = <<>> THEN <<>>
    ELSE Head(lines) \o <<13, 10>> \o Terminated(Tail(lines))

Done(i) == pc[i] = "done"

\* "GET http://localhost/ HTTP/1.1\r\n\r\n"
TestRequestText ==
    <<71, 69, 84, 32, 104, 116, 116, 112, 58, 47, 47, 108, 111, 99, 97, 108,
      104, 111, 115, 116, 47, 32, 72, 84, 84, 80, 47, 49, 46, 49, 13, 10, 13, 10>>

\* "HTTP/1.1 200 OK\r\n\r\n<h1>hello</h1>"
TestResponseText ==
    <<72, 84, 84, 80, 47, 49, 46, 49, 32, 50, 48, 48, 32, 79, 75, 13, 10, 13, 10,
      60, 104, 49, 62, 104, 101, 108, 108, 111, 60, 47, 104, 49, 62>>

\* C1: for every Request, parse returns Some(method SP target SP version CRLF
\* header-block CRLF body), the header block being the header lines with CRLF
\* between them; the GET http://localhost/ 1.1 request without headers and
\* with an empty body yields "GET http://localhost/ HTTP/1.1\r\n\r\n".
C1_RequestLayout ==
    \A i \in Slots :
        Done(i) /\ message[i].kind = "Request" =>
            LET m == message[i] IN
            /\ result[i].some
            /\ result[i].text =
                   ExpectedMethod[m.method] \o <<32>> \o ExpectedTarget(m.uri) \o <<32>>
                   \o ExpectedVersion[m.version] \o <<13, 10>>
                   \o Block(MapLines(i)) \o <<13, 10>> \o m.body
            /\ (m.method = "GET" /\ m.uri = UriLocalhost /\ m.version = "HTTP_11"
                /\ given[i] = <<>> /\ m.body = <<>>
                    => result[i].text = TestRequestText)

C1_Witness ==
    \E i \in Slots :
        /\ Done(i) /\ message[i].kind = "Request" /\ result[i].some
        /\ Len(given[i]) >= 2 /\ message[i].body # <<>>
        /\ message[i].method = "POST"

\* C2: for every Response, parse returns Some(version SP status CRLF
\* header-block CRLF body), with no method or target; the 200 response of
\* version 1.1 without headers and with body "<h1>hello</h1>" yields
\* "HTTP/1.1 200 OK\r\n\r\n<h1>hello</h1>".
C2_ResponseLayout ==
    \A i \in Slots :
        Done(i) /\ message[i].kind = "Response" =>
            LET m == message[i] IN
            /\ result[i].some
            /\ result[i].text =
                   ExpectedVersion[m.version] \o <<32>> \o ExpectedStatus(m.status)
                   \o <<13, 10>> \o Block(MapLines(i)) \o <<13, 10>> \o m.body
            /\ (m.status = 200 /\ m.version = "HTTP_11" /\ given[i] = <<>>
                /\ m.body = BodyHello
                    => result[i].text = TestResponseText)

C2_Witness ==
    \E i \in Slots :
        /\ Done(i) /\ message[i].kind = "Response" /\ result[i].some
        /\ Len(given[i]) >= 2 /\ message[i].status = 404
        /\ message[i].body = BodyHello

\* C3: whatever the number of headers, the text is start line, header lines,
\* one blank line, body: every header line (and the start line) ends with its
\* CRLF and one further CRLF precedes the body.
C3_OneBlankLine ==
    \A i \in Slots :
        Done(i) /\ result[i].some =>
            LET t == result[i].text
                body == message[i].body
            IN /\ EndsWith(t, body)
               /\ SubSeq(t, 1, Len(t) - Len(body)) =
                      Terminated(<<StartLine(t)>> \o MapLines(i)) \o <<13, 10>>

\* the order Builder::header was called in
GivenLines(i) ==
    [k \in 1..Len(given[i]) |-> ExpectedLine(given[i][k][1], given[i][k][2])]

RECURSIVE Grouped(_)
\* the pairs regrouped by name: names in order of first use, the values of one
\* name in the order given
Grouped(pairs) ==
    IF pairs = <<>> THEN <<>>
    ELSE LET name == Head(pairs)[1]
             Same(p) == p[1] = name
             Other(p) == p[1] # name
         IN SelectSeq(pairs, Same) \o Grouped(SelectSeq(pairs, Other))

GroupedLines(i) ==
    LET g == Grouped(given[i])
    IN [k \in 1..Len(g) |-> ExpectedLine(g[k][1], g[k][2])]

\* C4 as stated: the header block has one line "name:decoded value" per
\* header, in the order the headers were given, also when a name repeats
\* with other names in between.
C4_GivenOrder ==
    \A i \in Slots :
        Done(i) /\ result[i].some =>
            LinesOf(BlockOf(result[i].text, message[i].body)) = GivenLines(i)

\* C4 amended: one line "name:decoded value" per header, none merged or
\* dropped; the lines of one name are adjacent and in the order given, the
\* names in the order of their first use.
C4_GroupedOrder ==
    \A i \in Slots :
        Done(i) =>
            /\ result[i].some
            /\ LinesOf(BlockOf(result[i].text, message[i].body)) = GroupedLines(i)
            /\ Len(LinesOf(BlockOf(result[i].text, message[i].body))) = Len(given[i])

C4_Witness ==
    \E i \in Slots :
        /\ Done(i) /\ result[i].some
        /\ Len(given[i]) = 3
        /\ given[i][1][1] = given[i][3][1] /\ given[i][2][1] # given[i][1][1]
        /\ given[i][1][2] # given[i][3][2]

\* C5: for each of the five versions and both variants, the version token of
\* the start line (last token of a request line, first of a status line) is
\* the table entry of the message's version.
C5_VersionToken ==
    \A i \in Slots :
        Done(i) =>
            /\ result[i].some
            /\ LET toks == SplitAt(StartLine(result[i].text), <<32>>) IN
               IF message[i].kind = "Request"
               THEN Len(toks) = 3 /\ toks[3] = ExpectedVersion[message[i].version]
               ELSE toks[1] = ExpectedVersion[message[i].version]

C5_Witness ==
    /\ \E i \in Slots : Done(i) /\ result[i].some /\ message[i].kind = "Request"
                        /\ message[i].version = "HTTP_10"
                        /\ EndsWith(StartLine(result[i].text),
                                    <<32, 72, 84, 84, 80, 47, 49, 46, 48>>)

\* C6: with any of the five versions, any headers and any body, parse of
\* either variant returns Some: nothing but version rendering can make it None.
C6_AlwaysSome ==
    \A i \in Slots : Done(i) => result[i].some

C6_Witness ==
    \E i \in Slots :
        /\ Done(i) /\ result[i].some /\ message[i].version = "HTTP_3"
        /\ \E k \in 1..Len(given[i]) : given[i][k][2] = <<255>>
        /\ message[i].body # <<>>

\* C8 as stated: None for a message of version 2 or 3, Some for 0.9, 1.0, 1.1.
C8_NoneForH2H3 ==
    \A i \in Slots :
        Done(i) =>
            (result[i].some <=> message[i].version \in {"HTTP_09", "HTTP_10", "HTTP_11"})

\* C8 amended: versions 2 and 3 are rendered like the others: the result is
\* Some(text) whose start line carries "HTTP/2" or "HTTP/3"; 0.9, 1.0 and 1.1
\* give Some as well.
C8_SomeForH2H3 ==
    \A i \in Slots :
        Done(i) =>
            LET line == StartLine(result[i].text)
                tok == IF message[i].version = "HTTP_2"
                       THEN <<72, 84, 84, 80, 47, 50>> ELSE <<72, 84, 84, 80, 47, 51>>
            IN /\ message[i].version \in {"HTTP_2", "HTTP_3"} =>
                     /\ result[i].some
                     /\ IF message[i].kind = "Request"
                        THEN EndsWith(line, <<32>> \o tok)
                        ELSE StartsWith(line, tok \o <<32>>)
               /\ message[i].version \in {"HTTP_09", "HTTP_10", "HTTP_11"} =>
                     result[i].some

C8_Witness ==
    \E i \in Slots :
        /\ Done(i) /\ message[i].version = "HTTP_3" /\ message[i].kind = "Response"
        /\ result[i].some
        /\ StartsWith(result[i].text, <<72, 84, 84, 80, 47, 51, 32>>)

\* UTF-8 as an encoder writes it
Encode(cp) ==
    IF cp < 128 THEN <<cp>>
    ELSE IF cp < 2048 THEN <<192 + (cp \div 64), 128 + (cp % 64)>>
    ELSE <<224 + (cp \div 4096), 128 + ((cp \div 64) % 64), 128 + (cp % 64)>>

IsScalar(cp) == cp >= 0 /\ ~(cp >= 55296 /\ cp <= 57343)

\* every byte a header value of the model holds
UsedBytes == ValueBytes \cup UNION {{v[k] : k \in 1..Len(v)} : v \in HeaderValues}

\* the characters whose encodings are spelled with those bytes alone (no lead
\* byte of a 4-byte sequence is among them)
Chars ==
    {cp \in 0..65535 :
        IsScalar(cp) /\ \A k \in 1..Len(Encode(cp)) : Encode(cp)[k] \in UsedBytes}

RECURSIVE Lossy(_, _)
\* d is a lossy reading of bytes: where a character is encoded, d has that
\* character; where none is, d has one marker U+FFFD for a run of bytes none
\* of which, after the first, starts a character
Lossy(bytes, d) ==
    IF bytes = <<>> THEN d = <<>>
    ELSE /\ d # <<>>
         /\ LET good == {cp \in Chars : StartsWith(bytes, Encode(cp))} IN
            IF good # {}
            THEN \E cp \in good :
                    /\ Head(d) = cp
                    /\ Lossy(SubSeq(bytes, Len(Encode(cp)) + 1, Len(bytes)), Tail(d))
            ELSE /\ Head(d) = 65533
                 /\ \E n \in 1..Len(bytes) :
                       /\ \A j \in 2..n :
                             \A cp \in Chars :
                                ~StartsWith(SubSeq(bytes, j, Len(bytes)), Encode(cp))
                       /\ Lossy(SubSeq(bytes, n + 1, Len(bytes)), Tail(d))

ExpectedStartLine(m) ==
    IF m.kind = "Request"
    THEN ExpectedMethod[m.method] \o <<32>> \o ExpectedTarget(m.uri) \o <<32>>
         \o ExpectedVersion[m.version]
    ELSE ExpectedVersion[m.version] \o <<32>> \o ExpectedStatus(m.status)

HasIllFormed(bytes) == \E k \in 1..Len(bytes) : bytes[k] = 255

\* C7: a header value with bytes that are no valid text never makes parse
\* fail: the result is Some, the value's valid characters are kept, each
\* ill-formed sequence shows as the marker U+FFFD in its place, and the start
\* line, the other header lines and the body are as without it.
C7_LossyValue ==
    \A i \in Slots :
        Done(i) =>
            LET m == message[i]
                t == result[i].text
                hs == iter(m.headers)
                lines == LinesOf(BlockOf(t, m.body))
            IN /\ result[i].some
               /\ StartsWith(t, ExpectedStartLine(m) \o <<13, 10>>)
               /\ EndsWith(t, <<13, 10>> \o m.body)
               /\ Len(lines) = Len(hs)
               /\ \A k \in 1..Len(hs) :
                     /\ StartsWith(lines[k], hs[k].key \o <<58>>)
                     /\ Lossy(hs[k].value,
                              SubSeq(lines[k], Len(hs[k].key) + 2, Len(lines[k])))
                     /\ (HasIllFormed(hs[k].value)
                            => \E p \in 1..Len(lines[k]) : lines[k][p] = 65533)

C7_Witness ==
    \E i \in Slots :
        /\ Done(i) /\ result[i].some
        /\ given[i] = << <<(<<98>>), (<<49>>)>>, <<(<<97>>), (<<65, 255, 65>>)>> >>
        /\ LinesOf(BlockOf(result[i].text, message[i].body))
              = << <<98, 58, 49>>, <<97, 58, 65, 65533, 65>> >>

C10_AsIfAlone ==
    \A i \in Slots : Done(i) => result[i] = parse(parser[i])

C10_Witness ==
    \E i, j \in Slots :
        /\ i # j /\ Done(i) /\ Done(j)
        /\ given[i] # given[j] /\ given[i] # <<>> /\ given[j] # <<>>
        /\ result[i].some /\ result[j].some

====
